---- MODULE Spec2Model ----
(***************************************************************************)
(* The chess position engine of chesswav: board state, attack detection,   *)
(* check / checkmate by trial moves, resolution of algebraic notation and  *)
(* application of resolved moves.                                          *)
(*                                                                         *)
(* Option<T> is a sequence of length at most one: None is <<>> and Some(x) *)
(* is <<x>>.  A (Piece, Color) pair is the tuple <<piece, color>>.  A text *)
(* (&str) is a sequence of one-character strings.                          *)
(***************************************************************************)
EXTENDS Integers, Sequences, FiniteSets, TLC

None == <<>>
Some(x) == <<x>>
IsSome(o) == o /= <<>>
Unwrap(o) == o[1]

Piece == {"Pawn", "Knight", "Rook", "Bishop", "Queen", "King"}
Color == {"White", "Black"}

opponent(color) == IF color = "White" THEN "Black" ELSE "White"

Square(f, r) == [file |-> f, rank |-> r]

Abs(x) == IF x < 0 THEN -x ELSE x
Signum(x) == IF x < 0 THEN -1 ELSE IF x > 0 THEN 1 ELSE 0

\* `x as u8` for an i8 value x: two's complement reinterpretation.
AsU8(x) == x % 256

(***************************************************************************)
(* Position state.                                                         *)
(***************************************************************************)
Indices == 0 .. 7

Squares == {Square(f, r) : f \in Indices, r \in Indices}

EmptyBoard == [rank \in Indices |-> [file \in Indices |-> None]]

back_rank == <<"Rook", "Knight", "Bishop", "Queen", "King", "Bishop", "Knight", "Rook">>

\* Board::new() with king and queen on each other's files.
NewBoard_king_on_d ==
  [rank \in Indices |-> [file \in Indices |->
     CASE rank = 0 -> Some(<<back_rank[8 - file], "White">>)
       [] rank = 1 -> Some(<<"Pawn", "White">>)
       [] rank = 6 -> Some(<<"Pawn", "Black">>)
       [] rank = 7 -> Some(<<back_rank[8 - file], "Black">>)
       [] OTHER -> None]]

NewBoard ==
  [rank \in Indices |-> [file \in Indices |->
     CASE rank = 0 -> Some(<<back_rank[file + 1], "White">>)
       [] rank = 1 -> Some(<<"Pawn", "White">>)
       [] rank = 6 -> Some(<<"Pawn", "Black">>)
       [] rank = 7 -> Some(<<back_rank[file + 1], "Black">>)
       [] OTHER -> None]]

get(b, file, rank) == b[rank][file]

set(b, file, rank, piece) == [b EXCEPT ![rank][file] = Some(piece)]

clear_square(b, file, rank) == [b EXCEPT ![rank][file] = None]

\* The direct array write `self.squares[rank][file] = cell`.
put(b, file, rank, cell) == [b EXCEPT ![rank][file] = cell]

(***************************************************************************)
(* Reachability predicates.                                                *)
(***************************************************************************)
RECURSIVE path_walk(_, _, _, _, _, _)
path_walk(b, current_file, current_rank, dest, file_step, rank_step) ==
  IF current_file = dest.file /\ current_rank = dest.rank
  THEN TRUE
  ELSE IF IsSome(get(b, AsU8(current_file), AsU8(current_rank)))
       THEN FALSE
       ELSE path_walk(b, current_file + file_step, current_rank + rank_step,
                      dest, file_step, rank_step)

\* path_clear taking every path as free.
path_clear_unobstructed(b, file, rank, dest, file_step, rank_step) == TRUE

\* path_clear asking the destination to be empty as well.
path_clear_to_empty(b, file, rank, dest, file_step, rank_step) ==
  /\ path_walk(b, file + file_step, rank + rank_step, dest, file_step, rank_step)
  /\ ~IsSome(get(b, dest.file, dest.rank))

path_clear(b, file, rank, dest, file_step, rank_step) ==
  path_walk(b, file + file_step, rank + rank_step, dest, file_step, rank_step)

knight_can_reach(b, file, rank, dest) ==
  LET file_distance == Abs(dest.file - file)
      rank_distance == Abs(dest.rank - rank)
  IN (file_distance = 2 /\ rank_distance = 1) \/ (file_distance = 1 /\ rank_distance = 2)

bishop_can_reach(b, file, rank, dest) ==
  LET file_distance == dest.file - file
      rank_distance == dest.rank - rank
  IN IF Abs(file_distance) /= Abs(rank_distance) \/ file_distance = 0
     THEN FALSE
     ELSE path_clear(b, file, rank, dest, Signum(file_distance), Signum(rank_distance))

rook_can_reach(b, file, rank, dest) ==
  LET file_distance == dest.file - file
      rank_distance == dest.rank - rank
  IN IF (file_distance /= 0 /\ rank_distance /= 0) \/ (file_distance = 0 /\ rank_distance = 0)
     THEN FALSE
     ELSE path_clear(b, file, rank, dest, Signum(file_distance), Signum(rank_distance))

\* Iterations of the walk that are followed.
MaxWalk == 9

\* The squares the loop of path_clear reads, in order, as the (file, rank)
\* pair of u8 indices it hands to get.  The loop ends on reaching dest, on a
\* read of an occupied square, and on an index outside the 8x8 array, where
\* the array access panics.
RECURSIVE path_reads(_, _, _, _, _, _, _)
path_reads(b, current_file, current_rank, dest, file_step, rank_step, fuel) ==
  IF current_file = dest.file /\ current_rank = dest.rank
  THEN <<>>
  ELSE IF fuel = 0
  THEN <<>>
  ELSE LET read == Square(AsU8(current_file), AsU8(current_rank))
       IN IF read.file \notin Indices \/ read.rank \notin Indices
          THEN <<read>>
          ELSE IF IsSome(get(b, read.file, read.rank))
          THEN <<read>>
          ELSE <<read>> \o path_reads(b, current_file + file_step, current_rank + rank_step,
                                      dest, file_step, rank_step, fuel - 1)

\* The walk bishop_can_reach starts: whether path_clear is entered, and the
\* squares it reads.
bishop_walk_unvalidated(b, file, rank, dest) ==
  LET file_distance == dest.file - file
      rank_distance == dest.rank - rank
  IN [entered |-> TRUE,
      reads |-> path_reads(b, file + Signum(file_distance), rank + Signum(rank_distance),
                           dest, Signum(file_distance), Signum(rank_distance), MaxWalk)]

bishop_walk(b, file, rank, dest) ==
  LET file_distance == dest.file - file
      rank_distance == dest.rank - rank
  IN IF Abs(file_distance) /= Abs(rank_distance) \/ file_distance = 0
     THEN [entered |-> FALSE, reads |-> <<>>]
     ELSE [entered |-> TRUE,
           reads |-> path_reads(b, file + Signum(file_distance), rank + Signum(rank_distance),
                                dest, Signum(file_distance), Signum(rank_distance), MaxWalk)]

\* The walk rook_can_reach starts.
rook_walk(b, file, rank, dest) ==
  LET file_distance == dest.file - file
      rank_distance == dest.rank - rank
  IN IF (file_distance /= 0 /\ rank_distance /= 0) \/ (file_distance = 0 /\ rank_distance = 0)
     THEN [entered |-> FALSE, reads |-> <<>>]
     ELSE [entered |-> TRUE,
           reads |-> path_reads(b, file + Signum(file_distance), rank + Signum(rank_distance),
                                dest, Signum(file_distance), Signum(rank_distance), MaxWalk)]

\* The walks can_reach starts for the piece: the bishop's, the rook's, for
\* the queen the bishop's and then, when that one fails, the rook's.
slider_walk(b, piece, file, rank, dest) ==
  CASE piece = "Bishop" -> bishop_walk(b, file, rank, dest)
    [] piece = "Rook" -> rook_walk(b, file, rank, dest)
    [] piece = "Queen" ->
         IF bishop_can_reach(b, file, rank, dest)
         THEN bishop_walk(b, file, rank, dest)
         ELSE [entered |-> bishop_walk(b, file, rank, dest).entered
                             \/ rook_walk(b, file, rank, dest).entered,
               reads |-> bishop_walk(b, file, rank, dest).reads
                           \o rook_walk(b, file, rank, dest).reads]
    [] OTHER -> [entered |-> FALSE, reads |-> <<>>]

\* king_can_reach counting the king's own square.
king_can_reach_standing(b, file, rank, dest) ==
  LET file_distance == Abs(dest.file - file)
      rank_distance == Abs(dest.rank - rank)
  IN file_distance <= 1 /\ rank_distance <= 1

king_can_reach(b, file, rank, dest) ==
  LET file_distance == Abs(dest.file - file)
      rank_distance == Abs(dest.rank - rank)
  IN file_distance <= 1 /\ rank_distance <= 1 /\ (file_distance + rank_distance) > 0

pawn_direction(color) == IF color = "White" THEN 1 ELSE -1

pawn_start_rank(color) == IF color = "White" THEN 1 ELSE 6

\* pawn_can_reach without the test of the square the double push passes.
pawn_can_reach_jumping(b, color, file, rank, dest) ==
  LET direction == pawn_direction(color)
      start_rank == pawn_start_rank(color)
      file_distance == dest.file - file
      rank_distance == dest.rank - rank
  IN IF file_distance = 0 /\ rank_distance = direction
        /\ ~IsSome(get(b, dest.file, dest.rank))
     THEN TRUE
     ELSE IF file_distance = 0 /\ rank_distance = 2 * direction /\ rank = start_rank
             /\ ~IsSome(get(b, dest.file, dest.rank))
     THEN TRUE
     ELSE Abs(file_distance) = 1 /\ rank_distance = direction

pawn_can_reach(b, color, file, rank, dest) ==
  LET direction == pawn_direction(color)
      start_rank == pawn_start_rank(color)
      file_distance == dest.file - file
      rank_distance == dest.rank - rank
  IN IF file_distance = 0 /\ rank_distance = direction
        /\ ~IsSome(get(b, dest.file, dest.rank))
     THEN TRUE
     ELSE IF file_distance = 0 /\ rank_distance = 2 * direction /\ rank = start_rank
             /\ ~IsSome(get(b, file, AsU8(rank + direction)))
             /\ ~IsSome(get(b, dest.file, dest.rank))
     THEN TRUE
     ELSE Abs(file_distance) = 1 /\ rank_distance = direction

\* pawn_can_move_to taking the diagonal step whatever the destination holds.
pawn_can_move_to_any_diagonal(b, color, file, rank, dest) ==
  LET direction == pawn_direction(color)
      start_rank == pawn_start_rank(color)
      file_distance == dest.file - file
      rank_distance == dest.rank - rank
  IN IF file_distance = 0 /\ rank_distance = direction
        /\ ~IsSome(get(b, dest.file, dest.rank))
     THEN TRUE
     ELSE IF file_distance = 0 /\ rank_distance = 2 * direction /\ rank = start_rank
             /\ ~IsSome(get(b, file, AsU8(rank + direction)))
             /\ ~IsSome(get(b, dest.file, dest.rank))
     THEN TRUE
     ELSE Abs(file_distance) = 1 /\ rank_distance = direction

\* pawn_can_move_to without the test of the square the double push passes.
pawn_can_move_to_jumping(b, color, file, rank, dest) ==
  LET direction == pawn_direction(color)
      start_rank == pawn_start_rank(color)
      file_distance == dest.file - file
      rank_distance == dest.rank - rank
  IN IF file_distance = 0 /\ rank_distance = direction
        /\ ~IsSome(get(b, dest.file, dest.rank))
     THEN TRUE
     ELSE IF file_distance = 0 /\ rank_distance = 2 * direction /\ rank = start_rank
             /\ ~IsSome(get(b, dest.file, dest.rank))
     THEN TRUE
     ELSE IF Abs(file_distance) = 1 /\ rank_distance = direction
             /\ IsSome(get(b, dest.file, dest.rank))
     THEN Unwrap(get(b, dest.file, dest.rank))[2] /= color
     ELSE FALSE

pawn_can_move_to(b, color, file, rank, dest) ==
  LET direction == pawn_direction(color)
      start_rank == pawn_start_rank(color)
      file_distance == dest.file - file
      rank_distance == dest.rank - rank
  IN IF file_distance = 0 /\ rank_distance = direction
        /\ ~IsSome(get(b, dest.file, dest.rank))
     THEN TRUE
     ELSE IF file_distance = 0 /\ rank_distance = 2 * direction /\ rank = start_rank
             /\ ~IsSome(get(b, file, AsU8(rank + direction)))
             /\ ~IsSome(get(b, dest.file, dest.rank))
     THEN TRUE
     ELSE IF Abs(file_distance) = 1 /\ rank_distance = direction
             /\ IsSome(get(b, dest.file, dest.rank))
     THEN Unwrap(get(b, dest.file, dest.rank))[2] /= color
     ELSE FALSE

\* can_reach with the queen moving along ranks and files only.
can_reach_queen_as_rook(b, piece, color, file, rank, dest) ==
  CASE piece = "Pawn" -> pawn_can_reach(b, color, file, rank, dest)
    [] piece = "Knight" -> knight_can_reach(b, file, rank, dest)
    [] piece = "Bishop" -> bishop_can_reach(b, file, rank, dest)
    [] piece = "Rook" -> rook_can_reach(b, file, rank, dest)
    [] piece = "Queen" -> rook_can_reach(b, file, rank, dest)
    [] piece = "King" -> king_can_reach(b, file, rank, dest)

can_reach(b, piece, color, file, rank, dest) ==
  CASE piece = "Pawn" -> pawn_can_reach(b, color, file, rank, dest)
    [] piece = "Knight" -> knight_can_reach(b, file, rank, dest)
    [] piece = "Bishop" -> bishop_can_reach(b, file, rank, dest)
    [] piece = "Rook" -> rook_can_reach(b, file, rank, dest)
    [] piece = "Queen" ->
         bishop_can_reach(b, file, rank, dest) \/ rook_can_reach(b, file, rank, dest)
    [] piece = "King" -> king_can_reach(b, file, rank, dest)

(***************************************************************************)
(* Attack detection.                                                       *)
(***************************************************************************)
\* pawn_attacks_square taking the square straight ahead as attacked too.
pawn_attacks_square_ahead(color, file, rank, target) ==
  LET direction == pawn_direction(color)
      file_distance == target.file - file
      rank_distance == target.rank - rank
  IN Abs(file_distance) <= 1 /\ rank_distance = direction

pawn_attacks_square(color, file, rank, target) ==
  LET direction == pawn_direction(color)
      file_distance == target.file - file
      rank_distance == target.rank - rank
  IN Abs(file_distance) = 1 /\ rank_distance = direction

attacks_square(b, piece, color, file, rank, target) ==
  CASE piece = "Pawn" -> pawn_attacks_square(color, file, rank, target)
    [] piece = "Knight" -> knight_can_reach(b, file, rank, target)
    [] piece = "Bishop" -> bishop_can_reach(b, file, rank, target)
    [] piece = "Rook" -> rook_can_reach(b, file, rank, target)
    [] piece = "Queen" ->
         bishop_can_reach(b, file, rank, target) \/ rook_can_reach(b, file, rank, target)
    [] piece = "King" -> king_can_reach(b, file, rank, target)

\* is_square_attacked_by counting the pieces of both colours.
is_square_attacked_by_anyone(b, target, attacker_color) ==
  \E rank \in Indices : \E file \in Indices :
     /\ IsSome(get(b, file, rank))
     /\ attacks_square(b, Unwrap(get(b, file, rank))[1], Unwrap(get(b, file, rank))[2],
                       file, rank, target)

is_square_attacked_by(b, target, attacker_color) ==
  \E rank \in Indices : \E file \in Indices :
     /\ IsSome(get(b, file, rank))
     /\ Unwrap(get(b, file, rank))[2] = attacker_color
     /\ attacks_square(b, Unwrap(get(b, file, rank))[1], attacker_color, file, rank, target)

(***************************************************************************)
(* Check and checkmate.                                                    *)
(***************************************************************************)
\* The rank-major, file-minor scan `for rank in 0..8 { for file in 0..8 {` as
\* one index 0..63: rank = i \div 8, file = i % 8.
ScanFile(i) == i % 8
ScanRank(i) == i \div 8

\* find_king returning the first king of the scan, whatever its colour.
find_king_any_colour(b, color) ==
  LET scan[i \in 0 .. 64] ==
        IF i = 64 THEN None
        ELSE IF IsSome(get(b, ScanFile(i), ScanRank(i)))
                /\ Unwrap(get(b, ScanFile(i), ScanRank(i)))[1] = "King"
             THEN Some(Square(ScanFile(i), ScanRank(i)))
             ELSE scan[i + 1]
  IN scan[0]

find_king(b, color) ==
  LET scan[i \in 0 .. 64] ==
        IF i = 64 THEN None
        ELSE IF get(b, ScanFile(i), ScanRank(i)) = Some(<<"King", color>>)
             THEN Some(Square(ScanFile(i), ScanRank(i)))
             ELSE scan[i + 1]
  IN scan[0]

\* is_in_check reporting a side without a king as in check.
is_in_check_kingless(b, color) ==
  LET king_square == find_king(b, color)
  IN IF IsSome(king_square)
     THEN is_square_attacked_by(b, Unwrap(king_square), opponent(color))
     ELSE TRUE

is_in_check(b, color) ==
  LET king_square == find_king(b, color)
  IN IF IsSome(king_square)
     THEN is_square_attacked_by(b, Unwrap(king_square), opponent(color))
     ELSE FALSE

\* is_valid_destination refusing every occupied destination, not only own pieces.
is_valid_destination_no_capture(b, piece, color, file, rank, dest) ==
  IF IsSome(get(b, dest.file, dest.rank))
  THEN FALSE
  ELSE CASE piece = "Pawn" -> pawn_can_move_to(b, color, file, rank, dest)
         [] piece = "Knight" -> knight_can_reach(b, file, rank, dest)
         [] piece = "Bishop" -> bishop_can_reach(b, file, rank, dest)
         [] piece = "Rook" -> rook_can_reach(b, file, rank, dest)
         [] piece = "Queen" ->
              bishop_can_reach(b, file, rank, dest) \/ rook_can_reach(b, file, rank, dest)
         [] piece = "King" -> king_can_reach(b, file, rank, dest)

\* is_valid_destination without the own-piece test.
is_valid_destination_own_capture(b, piece, color, file, rank, dest) ==
  CASE piece = "Pawn" -> pawn_can_move_to(b, color, file, rank, dest)
    [] piece = "Knight" -> knight_can_reach(b, file, rank, dest)
    [] piece = "Bishop" -> bishop_can_reach(b, file, rank, dest)
    [] piece = "Rook" -> rook_can_reach(b, file, rank, dest)
    [] piece = "Queen" ->
         bishop_can_reach(b, file, rank, dest) \/ rook_can_reach(b, file, rank, dest)
    [] piece = "King" -> king_can_reach(b, file, rank, dest)

is_valid_destination(b, piece, color, file, rank, dest) ==
  IF IsSome(get(b, dest.file, dest.rank)) /\ Unwrap(get(b, dest.file, dest.rank))[2] = color
  THEN FALSE
  ELSE CASE piece = "Pawn" -> pawn_can_move_to(b, color, file, rank, dest)
         [] piece = "Knight" -> knight_can_reach(b, file, rank, dest)
         [] piece = "Bishop" -> bishop_can_reach(b, file, rank, dest)
         [] piece = "Rook" -> rook_can_reach(b, file, rank, dest)
         [] piece = "Queen" ->
              bishop_can_reach(b, file, rank, dest) \/ rook_can_reach(b, file, rank, dest)
         [] piece = "King" -> king_can_reach(b, file, rank, dest)

\* move_leaves_king_safe testing the position before the move, not the trial.
move_leaves_king_safe_no_trial(b, color, file, rank, dest) ==
  LET king_square == find_king(b, color)
  IN IF IsSome(king_square) /\ Unwrap(king_square) = Square(file, rank)
     THEN ~is_square_attacked_by(b, dest, opponent(color))
     ELSE TRUE

move_leaves_king_safe(b, color, file, rank, dest) ==
  LET piece_on_origin == get(b, file, rank)
      trial == put(clear_square(b, file, rank), dest.file, dest.rank, piece_on_origin)
  IN ~is_in_check(trial, color)

piece_has_legal_move(b, piece, color, file, rank) ==
  \E dest_rank \in Indices : \E dest_file \in Indices :
     /\ is_valid_destination(b, piece, color, file, rank, Square(dest_file, dest_rank))
     /\ move_leaves_king_safe(b, color, file, rank, Square(dest_file, dest_rank))

has_any_legal_move(b, color) ==
  \E rank \in Indices : \E file \in Indices :
     /\ IsSome(get(b, file, rank))
     /\ Unwrap(get(b, file, rank))[2] = color
     /\ piece_has_legal_move(b, Unwrap(get(b, file, rank))[1], color, file, rank)

\* is_checkmate without the test for check: no legal move at all.
is_checkmate_no_move(b, color) == ~has_any_legal_move(b, color)

is_checkmate(b, color) == is_in_check(b, color) /\ ~has_any_legal_move(b, color)

(***************************************************************************)
(* Notation text: the parser of move tokens and the hint extraction.       *)
(***************************************************************************)
FileLetters == <<"a", "b", "c", "d", "e", "f", "g", "h">>
RankDigits == <<"1", "2", "3", "4", "5", "6", "7", "8">>

Contains(seq, x) == \E i \in 1 .. Len(seq) : seq[i] = x

\* `c as u8 - b'a'` (or `- b'1'`) for a character c of the given range.
Offset(range, c) == (CHOOSE i \in 1 .. Len(range) : range[i] = c) - 1

\* The part of the text before its first '=': `.split('=').next()`.
RECURSIVE before_eq(_)
before_eq(text) ==
  IF text = <<>> \/ Head(text) = "=" THEN <<>> ELSE <<Head(text)>> \o before_eq(Tail(text))

\* The part between the first and the second '=': `.split('=').nth(1)`.
after_eq(text) ==
  LET n == Len(before_eq(text))
  IN IF n = Len(text) THEN None ELSE Some(before_eq(SubSeq(text, n + 2, Len(text))))

IsThreatMark(c) == c \in {"+", "#"}
IsAnnotation(c) == c \in {"+", "#", "!", "?", "x", "-"}
NotThreatMark(c) == ~IsThreatMark(c)
NotAnnotation(c) == ~IsAnnotation(c)

is_castling(notation) ==
  LET clean == SelectSeq(notation, NotThreatMark)
  IN clean = <<"O", "-", "O">> \/ clean = <<"O", "-", "O", "-", "O">>

strip_annotations(notation) == SelectSeq(before_eq(notation), NotAnnotation)

extract_pawn_hints(clean) ==
  IF Len(clean) > 2 /\ Contains(FileLetters, clean[1])
  THEN <<Some(Offset(FileLetters, clean[1])), None>>
  ELSE <<None, None>>

RECURSIVE scan_hints(_, _, _)
scan_hints(disambiguation, file_hint, rank_hint) ==
  IF disambiguation = <<>> THEN <<file_hint, rank_hint>>
  ELSE LET hint_char == Head(disambiguation)
       IN IF Contains(FileLetters, hint_char)
          THEN scan_hints(Tail(disambiguation), Some(Offset(FileLetters, hint_char)), rank_hint)
          ELSE IF Contains(RankDigits, hint_char)
          THEN scan_hints(Tail(disambiguation), file_hint, Some(Offset(RankDigits, hint_char)))
          ELSE scan_hints(Tail(disambiguation), file_hint, rank_hint)

\* extract_hints keeping the first file letter and rank digit it meets: the
\* scan run over the reversed characters.
extract_hints_first_wins(clean, piece) ==
  IF piece = "Pawn" THEN extract_pawn_hints(clean)
  ELSE IF Len(clean) <= 3 THEN <<None, None>>
  ELSE scan_hints([i \in 1 .. Len(clean) - 3 |-> clean[Len(clean) - 1 - i]], None, None)

extract_hints(clean, piece) ==
  IF piece = "Pawn" THEN extract_pawn_hints(clean)
  ELSE IF Len(clean) <= 3 THEN <<None, None>>
  ELSE scan_hints(SubSeq(clean, 2, Len(clean) - 2), None, None)

from_char(c) ==
  CASE c = "N" -> Some("Knight")
    [] c = "R" -> Some("Rook")
    [] c = "B" -> Some("Bishop")
    [] c = "Q" -> Some("Queen")
    [] c = "K" -> Some("King")
    [] OTHER -> None

parse_square(file_char, rank_char) ==
  IF Contains(FileLetters, file_char) /\ Contains(RankDigits, rank_char)
  THEN Some(Square(Offset(FileLetters, file_char), Offset(RankDigits, rank_char)))
  ELSE None

parse_promotion(input) ==
  LET segment == after_eq(input)
  IN IF IsSome(segment) /\ Unwrap(segment) /= <<>> THEN from_char(Unwrap(segment)[1]) ELSE None

NotationMove(piece, dest, threat, capture, promotion) ==
  [piece |-> piece, dest |-> dest, threat |-> threat, capture |-> capture,
   promotion |-> promotion]

parse_castling(clean, rank, threat, capture) ==
  IF clean = <<"O", "O">>
  THEN Some(NotationMove("King", Square(6, rank), threat, capture, None))
  ELSE IF clean = <<"O", "O", "O">>
  THEN Some(NotationMove("King", Square(2, rank), threat, capture, None))
  ELSE None

parse(input, move_index) ==
  LET threat == IF Contains(input, "#") THEN "Checkmate"
                ELSE IF Contains(input, "+") THEN "Check" ELSE "None"
      capture == IF Contains(input, "x") THEN "Taken" ELSE "None"
      promotion == parse_promotion(input)
      clean == strip_annotations(input)
      rank == IF move_index % 2 = 0 THEN 0 ELSE 7
      castling == parse_castling(clean, rank, threat, capture)
  IN IF IsSome(castling) THEN castling
     ELSE IF clean = <<>> THEN None
     ELSE IF Len(clean) < 2 THEN None
     ELSE LET piece == IF IsSome(from_char(clean[1])) THEN Unwrap(from_char(clean[1]))
                       ELSE "Pawn"
              dest == parse_square(clean[Len(clean) - 1], clean[Len(clean)])
          IN IF IsSome(dest)
             THEN Some(NotationMove(piece, Unwrap(dest), threat, capture, promotion))
             ELSE None

(***************************************************************************)
(* Move resolution.                                                        *)
(***************************************************************************)
ResolvedMove(origin, dest, promotion, castling_rook) ==
  [origin |-> origin, dest |-> dest, promotion |-> promotion,
   castling_rook |-> castling_rook]

\* resolve_castling with the queenside rook put on the king's square c instead of d.
resolve_castling_rook_c(chess_move, color) ==
  LET rank == IF color = "White" THEN 0 ELSE 7
      kingside == chess_move.dest.file = 6
      rook == IF kingside THEN <<Square(7, rank), Square(5, rank)>>
              ELSE <<Square(0, rank), Square(2, rank)>>
  IN Some(ResolvedMove(Square(4, rank), chess_move.dest, None, Some(rook)))

resolve_castling(chess_move, color) ==
  LET rank == IF color = "White" THEN 0 ELSE 7
      kingside == chess_move.dest.file = 6
      rook == IF kingside THEN <<Square(7, rank), Square(5, rank)>>
              ELSE <<Square(0, rank), Square(3, rank)>>
  IN Some(ResolvedMove(Square(4, rank), chess_move.dest, None, Some(rook)))

\* origin_matches without the test of what the square holds.
origin_matches_unoccupied(b, piece, dest, color, file_hint, rank_hint, file, rank) ==
  /\ (IsSome(get(b, file, rank)) => Unwrap(get(b, file, rank)) = <<piece, color>>)
  /\ (IsSome(file_hint) => file = Unwrap(file_hint))
  /\ (IsSome(rank_hint) => rank = Unwrap(rank_hint))
  /\ can_reach(b, piece, color, file, rank, dest)

\* origin_matches without the test of the file hint.
origin_matches_any_file(b, piece, dest, color, file_hint, rank_hint, file, rank) ==
  /\ IsSome(get(b, file, rank))
  /\ Unwrap(get(b, file, rank)) = <<piece, color>>
  /\ (IsSome(rank_hint) => rank = Unwrap(rank_hint))
  /\ can_reach(b, piece, color, file, rank, dest)

\* One square of the origin scan: the piece, the colour, the hints, then can_reach.
origin_matches(b, piece, dest, color, file_hint, rank_hint, file, rank) ==
  /\ IsSome(get(b, file, rank))
  /\ Unwrap(get(b, file, rank)) = <<piece, color>>
  /\ (IsSome(file_hint) => file = Unwrap(file_hint))
  /\ (IsSome(rank_hint) => rank = Unwrap(rank_hint))
  /\ can_reach(b, piece, color, file, rank, dest)

\* find_origin keeping the last match of the scan instead of returning the first.
find_origin_last(b, piece, dest, color, file_hint, rank_hint) ==
  LET scan[i \in -1 .. 63] ==
        IF i = -1 THEN None
        ELSE IF origin_matches(b, piece, dest, color, file_hint, rank_hint,
                               ScanFile(i), ScanRank(i))
             THEN Some(Square(ScanFile(i), ScanRank(i)))
             ELSE scan[i - 1]
  IN scan[63]

find_origin(b, piece, dest, color, file_hint, rank_hint) ==
  LET scan[i \in 0 .. 64] ==
        IF i = 64 THEN None
        ELSE IF origin_matches(b, piece, dest, color, file_hint, rank_hint,
                               ScanFile(i), ScanRank(i))
             THEN Some(Square(ScanFile(i), ScanRank(i)))
             ELSE scan[i + 1]
  IN scan[0]

resolve_move(b, chess_move, notation, color) ==
  IF is_castling(notation) THEN resolve_castling(chess_move, color)
  ELSE LET clean == strip_annotations(notation)
           hints == extract_hints(clean, chess_move.piece)
           origin == find_origin(b, chess_move.piece, chess_move.dest, color,
                                 hints[1], hints[2])
       IN IF IsSome(origin)
          THEN Some(ResolvedMove(Unwrap(origin), chess_move.dest, chess_move.promotion, None))
          ELSE None

(***************************************************************************)
(* Move application.  The result is the board the call leaves behind and   *)
(* whether the call panicked (`expect` on an empty origin when promoting); *)
(* a panic unwinds after the origin was cleared and before any later write.*)
(***************************************************************************)
move_rook(b, castling_rook) ==
  IF IsSome(castling_rook)
  THEN LET rook_from == Unwrap(castling_rook)[1]
           rook_to == Unwrap(castling_rook)[2]
           rook == get(b, rook_from.file, rook_from.rank)
       IN put(clear_square(b, rook_from.file, rook_from.rank),
              rook_to.file, rook_to.rank, rook)
  ELSE b

\* apply_move copying the piece to dest without clearing the origin.
apply_move_keeps_origin(b, parsed) ==
  LET piece_on_origin == get(b, parsed.origin.file, parsed.origin.rank)
  IN IF IsSome(parsed.promotion)
     THEN IF IsSome(piece_on_origin)
          THEN [board |-> move_rook(set(b, parsed.dest.file, parsed.dest.rank,
                                        <<Unwrap(parsed.promotion),
                                          Unwrap(piece_on_origin)[2]>>),
                                    parsed.castling_rook),
                panicked |-> FALSE]
          ELSE [board |-> b, panicked |-> TRUE]
     ELSE [board |-> move_rook(put(b, parsed.dest.file, parsed.dest.rank,
                                   piece_on_origin),
                               parsed.castling_rook),
           panicked |-> FALSE]

\* apply_move placing the piece that stood on the origin even when promoting.
apply_move_ignores_promotion(b, parsed) ==
  LET piece_on_origin == get(b, parsed.origin.file, parsed.origin.rank)
      cleared == clear_square(b, parsed.origin.file, parsed.origin.rank)
  IN IF IsSome(parsed.promotion) /\ ~IsSome(piece_on_origin)
     THEN [board |-> cleared, panicked |-> TRUE]
     ELSE [board |-> move_rook(put(cleared, parsed.dest.file, parsed.dest.rank,
                                   piece_on_origin),
                               parsed.castling_rook),
           panicked |-> FALSE]

\* apply_move relocating the rook before the king.
apply_move_rook_first(b, parsed) ==
  LET moved == move_rook(b, parsed.castling_rook)
      piece_on_origin == get(moved, parsed.origin.file, parsed.origin.rank)
      cleared == clear_square(moved, parsed.origin.file, parsed.origin.rank)
  IN IF IsSome(parsed.promotion)
     THEN IF IsSome(piece_on_origin)
          THEN [board |-> set(cleared, parsed.dest.file, parsed.dest.rank,
                              <<Unwrap(parsed.promotion), Unwrap(piece_on_origin)[2]>>),
                panicked |-> FALSE]
          ELSE [board |-> cleared, panicked |-> TRUE]
     ELSE [board |-> put(cleared, parsed.dest.file, parsed.dest.rank, piece_on_origin),
           panicked |-> FALSE]

\* apply_move with `if let Some(..)` in place of `expect`: promoting from an
\* empty origin moves the emptiness to dest and returns normally.
apply_move_silent(b, parsed) ==
  LET piece_on_origin == get(b, parsed.origin.file, parsed.origin.rank)
      cleared == clear_square(b, parsed.origin.file, parsed.origin.rank)
  IN IF IsSome(parsed.promotion) /\ IsSome(piece_on_origin)
     THEN [board |-> move_rook(set(cleared, parsed.dest.file, parsed.dest.rank,
                                   <<Unwrap(parsed.promotion),
                                     Unwrap(piece_on_origin)[2]>>),
                               parsed.castling_rook),
           panicked |-> FALSE]
     ELSE [board |-> move_rook(put(cleared, parsed.dest.file, parsed.dest.rank,
                                   piece_on_origin),
                               parsed.castling_rook),
           panicked |-> FALSE]

apply_move(b, parsed) ==
  LET piece_on_origin == get(b, parsed.origin.file, parsed.origin.rank)
      cleared == clear_square(b, parsed.origin.file, parsed.origin.rank)
  IN IF IsSome(parsed.promotion)
     THEN IF IsSome(piece_on_origin)
          THEN [board |-> move_rook(set(cleared, parsed.dest.file, parsed.dest.rank,
                                        <<Unwrap(parsed.promotion),
                                          Unwrap(piece_on_origin)[2]>>),
                                    parsed.castling_rook),
                panicked |-> FALSE]
          ELSE [board |-> cleared, panicked |-> TRUE]
     ELSE [board |-> move_rook(put(cleared, parsed.dest.file, parsed.dest.rank,
                                   piece_on_origin),
                               parsed.castling_rook),
           panicked |-> FALSE]

(***************************************************************************)
(* Positions and inputs the engine is driven with.                         *)
(***************************************************************************)
\* Squares by name: a1 is (file 0, rank 0), h8 is (file 7, rank 7).
Sq(name) == Unwrap(parse_square(name[1], name[2]))

RECURSIVE Place(_, _)
Place(b, placements) ==
  IF placements = <<>> THEN b
  ELSE LET p == Head(placements)
       IN Place(put(b, Sq(p[1]).file, Sq(p[1]).rank, p[2]), Tail(placements))

At(name, piece, color) == <<name, Some(<<piece, color>>)>>
Gone(name) == <<name, None>>

\* The fixtures of the unit tests of the board and further small positions.
EscapeBoard == Place(EmptyBoard, <<At(<<"e", "8">>, "King", "Black"),
                                   At(<<"e", "6">>, "Queen", "White")>>)
BlockBoard == Place(EmptyBoard, <<At(<<"e", "1">>, "King", "White"),
                                  At(<<"e", "8">>, "Rook", "Black"),
                                  At(<<"b", "3">>, "Rook", "White")>>)
BlockBoardB2 == Place(EmptyBoard, <<At(<<"e", "1">>, "King", "White"),
                                    At(<<"e", "8">>, "Rook", "Black"),
                                    At(<<"b", "2">>, "Rook", "White")>>)
CaptureBoard == Place(EmptyBoard, <<At(<<"e", "1">>, "King", "White"),
                                    At(<<"e", "2">>, "Queen", "Black"),
                                    At(<<"d", "1">>, "Rook", "White")>>)
BackRankBoard == Place(EmptyBoard, <<At(<<"g", "1">>, "King", "White"),
                                     At(<<"f", "2">>, "Pawn", "White"),
                                     At(<<"g", "2">>, "Pawn", "White"),
                                     At(<<"h", "2">>, "Pawn", "White"),
                                     At(<<"a", "1">>, "Rook", "Black")>>)
CastleBoard == Place(NewBoard, <<Gone(<<"f", "1">>), Gone(<<"g", "1">>)>>)
PromotionBoard == Place(NewBoard, <<At(<<"e", "7">>, "Pawn", "White"), Gone(<<"e", "8">>)>>)
RooksBoard == Place(NewBoard, <<At(<<"a", "4">>, "Rook", "White"),
                                At(<<"h", "4">>, "Rook", "White")>>)
PawnsBoard == Place(NewBoard, <<Gone(<<"e", "2">>), At(<<"e", "4">>, "Pawn", "White"),
                                Gone(<<"d", "7">>), At(<<"d", "5">>, "Pawn", "Black")>>)
StalemateBoard == Place(EmptyBoard, <<At(<<"a", "1">>, "King", "White"),
                                      At(<<"b", "3">>, "Queen", "Black")>>)
PinBoard == Place(EmptyBoard, <<At(<<"e", "1">>, "King", "White"),
                                At(<<"e", "2">>, "Rook", "White"),
                                At(<<"e", "8">>, "Rook", "Black"),
                                At(<<"h", "8">>, "King", "Black")>>)

InitBoards ==
  {NewBoard, EmptyBoard, EscapeBoard, BlockBoard, BlockBoardB2, CaptureBoard,
   BackRankBoard, CastleBoard, PromotionBoard, RooksBoard, PawnsBoard,
   StalemateBoard, PinBoard}

\* Move tokens as the user types them.
Notations ==
  {<<"e", "4">>, <<"e", "x", "d", "5">>, <<"N", "f", "3">>,
   <<"R", "a", "d", "4">>, <<"R", "h", "d", "4">>, <<"R", "d", "4">>,
   <<"R", "4", "d", "4">>, <<"Q", "x", "f", "7", "#">>, <<"e", "8", "=", "Q">>,
   <<"K", "x", "e", "2">>, <<"O", "-", "O">>, <<"O", "-", "O", "-", "O", "+">>}

\* The parser's output for a token, for either side to move.
Parsed(text) == {Unwrap(parse(text, i)) : i \in {j \in 0 .. 1 : IsSome(parse(text, j))}}

\* NotationMoves handed to resolve_move beside a text they were not parsed from.
OtherMoves == Parsed(<<"R", "a", "d", "4">>)

\* The calls of resolve_move: a token with the move parsed from it, or with
\* another move, for either mover colour.
Requests ==
  {r \in (UNION {Parsed(text) : text \in Notations} \cup OtherMoves) \X Notations \X Color :
     r[1] \in Parsed(r[2]) \cup OtherMoves}

\* ResolvedMoves built by hand, as the tests of apply_move build them.
Plain(from, to) == ResolvedMove(Sq(from), Sq(to), None, None)
Promote(from, to, piece) == ResolvedMove(Sq(from), Sq(to), Some(piece), None)
Castle(from, to, rook_from, rook_to) ==
  ResolvedMove(Sq(from), Sq(to), None, Some(<<Sq(rook_from), Sq(rook_to)>>))

DirectMoves ==
  {Plain(<<"e", "2">>, <<"e", "4">>),
   Plain(<<"e", "1">>, <<"e", "2">>),
   Plain(<<"e", "2">>, <<"e", "2">>),
   Castle(<<"e", "1">>, <<"g", "1">>, <<"h", "1">>, <<"f", "1">>),
   Castle(<<"e", "8">>, <<"c", "8">>, <<"a", "8">>, <<"d", "8">>),
   Castle(<<"e", "1">>, <<"h", "1">>, <<"h", "1">>, <<"f", "1">>),
   Promote(<<"e", "7">>, <<"e", "8">>, "Queen"),
   Promote(<<"e", "7">>, <<"e", "7">>, "Queen"),
   Promote(<<"e", "5">>, <<"e", "6">>, "Queen"),
   ResolvedMove(Sq(<<"e", "7">>), Sq(<<"e", "8">>), Some("Queen"),
                Some(<<Sq(<<"a", "8">>), Sq(<<"e", "8">>)>>))}

(***************************************************************************)
(* The state machine: one board, driven through the engine's public calls. *)
(* `call` records the last call made on the board with its inputs and      *)
(* result; `move_index` counts the moves applied; `move_history` holds the  *)
(* tokens an interactive session has played.                               *)
(***************************************************************************)
VARIABLES board, move_index, move_history, call

vars == <<board, move_index, move_history, call>>

\* Moves applied to one board.
MaxMoves == 1

Panicked == call.op = "apply_move" /\ call.panicked

\* The board is as constructed or as the last applied move left it.  The
\* queries are pure, so each position is queried from here and once.
Fresh == call.op \in {"new", "apply_move"} /\ ~Panicked

Init ==
  /\ board \in InitBoards
  /\ move_index = 0
  /\ move_history = <<>>
  /\ call = [op |-> "new"]

\* board.resolve_move(&chess_move, notation, color)
Resolve(chess_move, notation, color) ==
  /\ Fresh
  /\ call' = [op |-> "resolve_move", chess_move |-> chess_move, notation |-> notation,
              color |-> color, result |-> resolve_move(board, chess_move, notation, color)]
  /\ UNCHANGED <<board, move_index, move_history>>

\* board.apply_move(&parsed)
Apply(parsed) ==
  /\ ~Panicked
  /\ move_index < MaxMoves
  /\ LET outcome == apply_move(board, parsed)
     IN /\ board' = outcome.board
        /\ call' = [op |-> "apply_move", parsed |-> parsed, before |-> board,
                    panicked |-> outcome.panicked]
        /\ move_index' = IF outcome.panicked THEN move_index ELSE move_index + 1
        /\ UNCHANGED move_history

\* The caller's pipeline: the move resolve_move returned is applied at once.
ApplyResolved ==
  /\ call.op = "resolve_move"
  /\ IsSome(call.result)
  /\ Apply(Unwrap(call.result))

\* A ResolvedMove built by the caller itself.
ApplyDirect == Fresh /\ \E parsed \in DirectMoves : Apply(parsed)

\* board.is_in_check(color), board.is_checkmate(color), has_any_legal_move(color),
\* find_king(color)
Threat(color) ==
  /\ Fresh
  /\ call' = [op |-> "threat", color |-> color,
              in_check |-> is_in_check(board, color),
              any_legal |-> has_any_legal_move(board, color),
              checkmate |-> is_checkmate(board, color),
              king |-> find_king(board, color)]
  /\ UNCHANGED <<board, move_index, move_history>>

ResolveAny == \E r \in Requests : Resolve(r[1], r[2], r[3])

ThreatAny == \E color \in Color : Threat(color)

Next == ResolveAny \/ ApplyResolved \/ ApplyDirect \/ ThreatAny

Spec == Init /\ [][Next]_vars

(***************************************************************************)
(* The interactive session: one board from Board::new(), driven by the     *)
(* tokens typed at the prompt.  `call` records the last token with what    *)
(* the parser and resolve_move made of it and the threat found after it.   *)
(***************************************************************************)
\* is_white_turn giving White the odd indices.
is_white_turn_odd(index) == index % 2 = 1

is_white_turn(index) == index % 2 = 0

\* 1.e4 e5 2.Bc4 Nc6 3.Qh5 Nf6 4.Qxf7#
ScholarsMate ==
  <<<<"e", "4">>, <<"e", "5">>, <<"B", "c", "4">>, <<"N", "c", "6">>,
    <<"Q", "h", "5">>, <<"N", "f", "6">>, <<"Q", "x", "f", "7", "#">>>>

\* The tokens typed: those of the game above, the queen's capture with other
\* threat marks, a capture on e8, and a token the parser refuses.
Inputs ==
  {ScholarsMate[i] : i \in DOMAIN ScholarsMate}
    \cup {<<"e", "9">>, <<"Q", "x", "f", "7", "+">>, <<"Q", "x", "f", "7">>,
          <<"Q", "x", "e", "8">>}

\* Tokens played in one game.
MaxPlies == 7

\* The warning of a threat mark the position does not bear out.
validate_threat(notation_threat, in_check, checkmate) ==
  CASE notation_threat = "Checkmate" /\ ~checkmate ->
         Some("move annotated as checkmate but board disagrees")
    [] notation_threat = "Check" /\ ~in_check ->
         Some("move annotated as check but board disagrees")
    [] notation_threat = "None" /\ (in_check \/ checkmate) ->
         Some("check/checkmate detected but not annotated in notation")
    [] OTHER -> None

\* The last token was played and left the opponent checkmated: the session
\* waits for `new` or `quit`.
PostGame == call.op = "move" /\ IsSome(call.parsed) /\ call.checkmate

\* The session waits for a move.  A refused token changes nothing, so the
\* tokens are typed from the states a played token or a new game left.
AtPrompt ==
  \/ call.op = "new"
  \/ call.op = "move" /\ IsSome(call.parsed) /\ ~call.checkmate /\ ~call.panicked

InitRun ==
  /\ board = NewBoard
  /\ move_index = 0
  /\ move_history = <<>>
  /\ call = [op |-> "new"]

\* One turn of the loop on a token that is no command.
Move(input) ==
  /\ AtPrompt
  /\ Len(move_history) < MaxPlies
  /\ LET chess_move == parse(input, move_index)
         color == IF is_white_turn(move_index) THEN "White" ELSE "Black"
         parsed == IF IsSome(chess_move)
                   THEN resolve_move(board, Unwrap(chess_move), input, color)
                   ELSE None
     IN IF IsSome(parsed)
        THEN LET outcome == apply_move(board, Unwrap(parsed))
                 in_check == is_in_check(outcome.board, opponent(color))
                 checkmate == in_check /\ is_checkmate(outcome.board, opponent(color))
             IN /\ board' = outcome.board
                /\ move_history' = IF outcome.panicked THEN move_history
                                   ELSE Append(move_history, input)
                /\ call' = [op |-> "move", input |-> input, chess_move |-> chess_move,
                            color |-> color,
                            parsed |-> parsed, panicked |-> outcome.panicked,
                            in_check |-> ~outcome.panicked /\ in_check,
                            checkmate |-> ~outcome.panicked /\ checkmate,
                            warning |-> IF outcome.panicked THEN None
                                        ELSE validate_threat(Unwrap(chess_move).threat,
                                                             in_check, checkmate)]
                /\ move_index' = IF outcome.panicked \/ checkmate THEN move_index
                                 ELSE move_index + 1
        ELSE /\ call' = [op |-> "move", input |-> input, chess_move |-> chess_move,
                         color |-> color,
                         parsed |-> None, panicked |-> FALSE,
                         in_check |-> FALSE, checkmate |-> FALSE, warning |-> None]
             /\ UNCHANGED <<board, move_index, move_history>>

\* Board::new() again, by `reset` at the prompt or `new` after a checkmate.
StartOver ==
  /\ board' = NewBoard
  /\ move_index' = 0
  /\ move_history' = <<>>
  /\ call' = [op |-> "new"]

Reset == call.op = "move" /\ ~PostGame /\ ~call.panicked /\ StartOver

NewGame == PostGame /\ StartOver

MoveAny == \E input \in Inputs : Move(input)

NextRun == MoveAny \/ Reset \/ NewGame

SpecRun == InitRun /\ [][NextRun]_vars

(***************************************************************************)
(* The geometry predicates on small positions, built as the unit tests     *)
(* build theirs: an empty board, one piece set on it and at most one more  *)
(* piece near it.  `call` records, for one colour, the squares             *)
(* is_square_attacked_by holds of, or, for one piece of the board, the     *)
(* squares can_reach, is_valid_destination and attacks_square hold of.     *)
(***************************************************************************)
Directions == {d \in {-1, 0, 1} \X {-1, 0, 1} : d /= <<0, 0>>}

\* Steps between the piece and the second piece.
MaxGap == 2

OnBoard(file, rank) == file \in Indices /\ rank \in Indices

\* The pieces probed: pawns of both colours (their direction differs), the
\* other pieces in White.
Probed == {<<"Pawn", "Black">>} \cup {<<piece, "White">> : piece \in Piece}

Alone(piece, s) == set(EmptyBoard, s.file, s.rank, piece)

\* One piece anywhere on the board.
SingleBoards == {Alone(piece, Square(f, r)) : piece \in Probed, f \in Indices, r \in Indices}

\* Where the piece stands when a second piece is set near it: the corners,
\* the edges, the pawns' start ranks and the middle of the board.
PairFiles == {0, 3, 7}
PairRanks == {0, 1, 3, 6, 7}

\* A knight of either colour up to MaxGap steps away in one of the eight
\* directions.
PairBoards ==
  {set(Alone(x[1], Square(x[2], x[3])),
       x[2] + x[5] * x[4][1], x[3] + x[5] * x[4][2], <<"Knight", x[6]>>) :
     x \in {y \in Probed \X PairFiles \X PairRanks \X Directions \X (1 .. MaxGap) \X Color :
              OnBoard(y[2] + y[5] * y[4][1], y[3] + y[5] * y[4][2])}}

\* A rook on a1 and one piece of any kind and colour on a2..a7.
FileBoards ==
  {set(Alone(<<"Rook", color>>, Square(0, 0)), 0, r, other) :
     color \in Color, r \in 1 .. 6, other \in Piece \X Color}

\* The eight jumps of a knight.
Jumps == {j \in {-2, -1, 1, 2} \X {-2, -1, 1, 2} : Abs(j[1]) /= Abs(j[2])}

\* A knight and a second knight of either colour one jump away from it.
JumpBoards ==
  {set(Alone(<<"Knight", "White">>, Square(x[1], x[2])),
       x[1] + x[3][1], x[2] + x[3][2], <<"Knight", x[4]>>) :
     x \in {y \in PairFiles \X PairRanks \X Jumps \X Color :
              OnBoard(y[1] + y[3][1], y[2] + y[3][2])}}

ProbeBoards == SingleBoards \cup PairBoards \cup FileBoards \cup JumpBoards

InitProbe ==
  /\ board \in ProbeBoards
  /\ move_index = 0
  /\ move_history = <<>>
  /\ call = [op |-> "new"]

\* board.is_square_attacked_by(&target, attacker_color), for every target.
Attacked(attacker_color) ==
  /\ call.op = "new"
  /\ call' = [op |-> "attacked", color |-> attacker_color,
              targets |-> {t \in Squares : is_square_attacked_by(board, t, attacker_color)}]
  /\ UNCHANGED <<board, move_index, move_history>>

\* The predicates of the piece standing on `origin`, for every destination.
Probe(origin) ==
  /\ call.op = "new"
  /\ IsSome(get(board, origin.file, origin.rank))
  /\ LET piece == Unwrap(get(board, origin.file, origin.rank))[1]
         color == Unwrap(get(board, origin.file, origin.rank))[2]
     IN call' = [op |-> "probe", origin |-> origin, piece |-> piece, color |-> color,
                 reach |-> {d \in Squares :
                              can_reach(board, piece, color, origin.file, origin.rank, d)},
                 valid |-> {d \in Squares :
                              is_valid_destination(board, piece, color,
                                                   origin.file, origin.rank, d)},
                 walks |-> [d \in Squares |->
                              slider_walk(board, piece, origin.file, origin.rank, d)],
                 attacks |-> {t \in Squares :
                                attacks_square(board, piece, color,
                                               origin.file, origin.rank, t)}]
  /\ UNCHANGED <<board, move_index, move_history>>

AttackedAny == \E color \in Color : Attacked(color)

ProbeAny == \E origin \in Squares : Probe(origin)

NextProbe == AttackedAny \/ ProbeAny

SpecProbe == InitProbe /\ [][NextProbe]_vars

(***************************************************************************)
(* Hint extraction on move tokens.  `call` holds the token and the piece   *)
(* it is read for, then the cleaned token strip_annotations makes of it,   *)
(* then the hints extract_hints finds in the cleaned token.                *)
(***************************************************************************)
\* The characters the tokens are made of: a piece letter, two file letters,
\* two rank digits, the capture mark and the promotion mark.
TokenChars == {"R", "a", "h", "1", "4", "x", "="}

\* Characters of a token.
MaxToken == 5

Tokens == UNION {[1 .. n -> TokenChars] : n \in 0 .. MaxToken}

\* The pieces a token is read for.
TokenPieces == {"Pawn", "Rook"}

InitHint ==
  /\ board = EmptyBoard
  /\ move_index = 0
  /\ move_history = <<>>
  /\ call \in {[op |-> "token", notation |-> notation, piece |-> piece] :
                 notation \in Tokens, piece \in TokenPieces}

\* let clean = strip_annotations(notation)
Strip ==
  /\ call.op = "token"
  /\ call' = [op |-> "clean", notation |-> call.notation, piece |-> call.piece,
              clean |-> strip_annotations(call.notation)]
  /\ UNCHANGED <<board, move_index, move_history>>

\* let (file_hint, rank_hint) = extract_hints(&clean, piece)
Extract ==
  /\ call.op = "clean"
  /\ call' = [op |-> "hints", notation |-> call.notation, piece |-> call.piece,
              clean |-> call.clean, hints |-> extract_hints(call.clean, call.piece)]
  /\ UNCHANGED <<board, move_index, move_history>>

NextHint == Strip \/ Extract

SpecHint == InitHint /\ [][NextHint]_vars

(***************************************************************************)
(* Properties.                                                             *)
(***************************************************************************)
Cell(b, s) == b[s.rank][s.file]

Resolved == call.op = "resolve_move"

\* s comes no later than t in the rank-major, file-minor scan.
ScanLeq(s, t) == s.rank < t.rank \/ (s.rank = t.rank /\ s.file <= t.file)

\* The squares the claim of C1 calls matching: the square holds exactly the
\* requested piece of the mover's colour, lies on the hinted file and rank,
\* and the piece reaches the destination from it.
Candidates(b, chess_move, notation, color) ==
  LET hints == extract_hints(strip_annotations(notation), chess_move.piece)
  IN {s \in Squares :
        /\ Cell(b, s) = Some(<<chess_move.piece, color>>)
        /\ (IsSome(hints[1]) => s.file = Unwrap(hints[1]))
        /\ (IsSome(hints[2]) => s.rank = Unwrap(hints[2]))
        /\ can_reach(b, chess_move.piece, color, s.file, s.rank, chess_move.dest)}

\* C1: for a text that is not castling, resolve_move returns the first
\* matching square of the scan (lowest rank, then lowest file) as origin, with
\* the notation's dest and promotion and no castling rook, and returns None
\* exactly when no square matches.
C1_FirstMatch ==
  (Resolved /\ ~is_castling(call.notation)) =>
    LET cands == Candidates(board, call.chess_move, call.notation, call.color)
    IN IF cands = {}
       THEN call.result = None
       ELSE /\ IsSome(call.result)
            /\ Unwrap(call.result).origin \in cands
            /\ \A s \in cands : ScanLeq(Unwrap(call.result).origin, s)
            /\ Unwrap(call.result).dest = call.chess_move.dest
            /\ Unwrap(call.result).promotion = call.chess_move.promotion
            /\ Unwrap(call.result).castling_rook = None

\* Two squares match and the earlier one of the scan was returned.
C1_Witness ==
  /\ Resolved
  /\ ~is_castling(call.notation)
  /\ IsSome(call.result)
  /\ Cardinality(Candidates(board, call.chess_move, call.notation, call.color)) >= 2

\* C2 as stated: every move resolve_move returns, castling included, has an
\* occupied origin on the board it was resolved against.
C2_OriginOccupied ==
  (Resolved /\ IsSome(call.result)) => IsSome(Cell(board, Unwrap(call.result).origin))

\* C2 as amended: every move resolve_move returns for a text that is not
\* castling has an occupied origin on the board it was resolved against.
C2_OriginOccupiedUnlessCastling ==
  (Resolved /\ IsSome(call.result) /\ ~is_castling(call.notation)) =>
    IsSome(Cell(board, Unwrap(call.result).origin))

C2_Witness ==
  /\ Resolved
  /\ IsSome(call.result)
  /\ ~is_castling(call.notation)
  /\ Cell(board, Unwrap(call.result).origin) = Some(<<call.chess_move.piece, call.color>>)

\* The text with its trailing '+' and '#' removed.
RECURSIVE TrimThreat(_)
TrimThreat(text) ==
  IF text /= <<>> /\ text[Len(text)] \in {"+", "#"}
  THEN TrimThreat(SubSeq(text, 1, Len(text) - 1))
  ELSE text

CastlingText(text) ==
  TrimThreat(text) \in {<<"O", "-", "O">>, <<"O", "-", "O", "-", "O">>}

BackRank(color) == IF color = "White" THEN 0 ELSE 7

\* C3: for a castling text resolve_move returns Some, whatever the board: the
\* origin is file 4 of the mover's back rank, dest is the notation move's,
\* promotion is None, and the rook goes (7,rank)->(5,rank) when the dest file
\* is 6 and (0,rank)->(3,rank) otherwise.
C3_Castling ==
  (Resolved /\ CastlingText(call.notation)) =>
    LET rank == BackRank(call.color)
    IN call.result =
         Some([origin |-> Square(4, rank),
               dest |-> call.chess_move.dest,
               promotion |-> None,
               castling_rook |->
                 IF call.chess_move.dest.file = 6
                 THEN Some(<<Square(7, rank), Square(5, rank)>>)
                 ELSE Some(<<Square(0, rank), Square(3, rank)>>)])

\* Queenside castling with a trailing mark, resolved on a board with no king
\* on the origin square.
C3_Witness ==
  /\ Resolved
  /\ CastlingText(call.notation)
  /\ call.notation /= TrimThreat(call.notation)
  /\ IsSome(call.result)
  /\ call.chess_move.dest.file /= 6
  /\ Cell(board, Unwrap(call.result).origin) = None

Applied == call.op = "apply_move"

Others(b, squares) == [s \in Squares \ squares |-> Cell(b, s)]

\* C4: apply_move with no promotion, no castling rook and origin /= dest
\* empties the origin, puts on dest exactly what the origin held, whatever
\* dest held, and leaves every other square as it was.
C4_SimpleMove ==
  (/\ Applied
   /\ call.parsed.promotion = None
   /\ call.parsed.castling_rook = None
   /\ call.parsed.origin /= call.parsed.dest) =>
    /\ ~call.panicked
    /\ Cell(board, call.parsed.origin) = None
    /\ Cell(board, call.parsed.dest) = Cell(call.before, call.parsed.origin)
    /\ Others(board, {call.parsed.origin, call.parsed.dest})
         = Others(call.before, {call.parsed.origin, call.parsed.dest})

\* A capture: origin and dest were both occupied.
C4_Witness ==
  /\ Applied
  /\ call.parsed.promotion = None
  /\ call.parsed.castling_rook = None
  /\ call.parsed.origin /= call.parsed.dest
  /\ IsSome(Cell(call.before, call.parsed.origin))
  /\ IsSome(Cell(call.before, call.parsed.dest))
  /\ Cell(call.before, call.parsed.dest) /= Cell(call.before, call.parsed.origin)

PromotedCell == Some(<<Unwrap(call.parsed.promotion),
                       Unwrap(Cell(call.before, call.parsed.origin))[2]>>)

AfterKingMove(s) ==
  IF s = call.parsed.dest
  THEN IF IsSome(call.parsed.promotion) THEN PromotedCell
       ELSE Cell(call.before, call.parsed.origin)
  ELSE IF s = call.parsed.origin THEN None ELSE Cell(call.before, s)

\* ... and after the rook (from, to) was relocated on that board.
AfterRookMove(s) ==
  IF s = Unwrap(call.parsed.castling_rook)[2]
  THEN AfterKingMove(Unwrap(call.parsed.castling_rook)[1])
  ELSE IF s = Unwrap(call.parsed.castling_rook)[1] THEN None ELSE AfterKingMove(s)

KingsideCastle == Castle(<<"e", "1">>, <<"g", "1">>, <<"h", "1">>, <<"f", "1">>)

\* C6: with a castling rook (from, to), apply_move moves origin -> dest first
\* and then relocates what `from` holds after that move to `to`; White
\* kingside castling from king e1, rook h1, f1 and g1 empty ends with king
\* g1, rook f1, e1 and h1 empty.
C6_CastlingRook ==
  (Applied /\ IsSome(call.parsed.castling_rook) /\ ~call.panicked) =>
    /\ \A s \in Squares : Cell(board, s) = AfterRookMove(s)
    /\ (/\ call.parsed = KingsideCastle
        /\ Cell(call.before, Sq(<<"e", "1">>)) = Some(<<"King", "White">>)
        /\ Cell(call.before, Sq(<<"h", "1">>)) = Some(<<"Rook", "White">>)
        /\ Cell(call.before, Sq(<<"f", "1">>)) = None
        /\ Cell(call.before, Sq(<<"g", "1">>)) = None) =>
         /\ Cell(board, Sq(<<"g", "1">>)) = Some(<<"King", "White">>)
         /\ Cell(board, Sq(<<"f", "1">>)) = Some(<<"Rook", "White">>)
         /\ Cell(board, Sq(<<"e", "1">>)) = None
         /\ Cell(board, Sq(<<"h", "1">>)) = None

\* White castled kingside from king e1, rook h1, f1 and g1 empty.
C6_Witness ==
  /\ Applied
  /\ call.parsed = KingsideCastle
  /\ Cell(call.before, Sq(<<"e", "1">>)) = Some(<<"King", "White">>)
  /\ Cell(call.before, Sq(<<"h", "1">>)) = Some(<<"Rook", "White">>)
  /\ Cell(call.before, Sq(<<"f", "1">>)) = None
  /\ Cell(call.before, Sq(<<"g", "1">>)) = None
  /\ Cell(board, Sq(<<"g", "1">>)) = Some(<<"King", "White">>)

\* C7: apply_move with a promotion and an empty origin fails (it panics and
\* promotes nothing), and a failed apply_move leaves the board exactly as it
\* was before the call.
C7_FatalAllOrNothing ==
  Applied =>
    /\ (IsSome(call.parsed.promotion) /\ Cell(call.before, call.parsed.origin) = None)
         => call.panicked
    /\ call.panicked => board = call.before

\* The failure, on a board whose dest square was occupied.
C7_Witness ==
  /\ Applied
  /\ call.panicked
  /\ IsSome(call.parsed.promotion)
  /\ Cell(call.before, call.parsed.origin) = None
  /\ IsSome(Cell(call.before, call.parsed.dest))

Queried == call.op = "threat"

\* C8: is_checkmate(c) implies is_in_check(c).
C8_CheckmateImpliesCheck == Queried => (call.checkmate => call.in_check)

\* The converse fails: a side in check that is not checkmated.
C8_Witness == Queried /\ call.in_check /\ ~call.checkmate

\* The trial position of a move: origin cleared, dest overwritten.
Trial(b, origin, dest) ==
  [rank \in Indices |-> [file \in Indices |->
     IF Square(file, rank) = dest THEN Cell(b, origin)
     ELSE IF Square(file, rank) = origin THEN None
     ELSE b[rank][file]]]

\* A king of the colour stands on a square the opponent attacks.
KingAttacked(b, color) ==
  \E k \in Squares :
     /\ Cell(b, k) = Some(<<"King", color>>)
     /\ is_square_attacked_by(b, k, opponent(color))

\* The moves of a colour to an otherwise valid destination, as <<origin, dest>>.
ValidMoves(b, color) ==
  {m \in Squares \X Squares :
     /\ IsSome(Cell(b, m[1]))
     /\ Unwrap(Cell(b, m[1]))[2] = color
     /\ is_valid_destination(b, Unwrap(Cell(b, m[1]))[1], color,
                             m[1].file, m[1].rank, m[2])}

SafeMove(b, color, m) == ~KingAttacked(Trial(b, m[1], m[2]), color)

\* C9: has_any_legal_move(c) counts no move whose trial position has c's
\* king attacked: when every valid destination of every piece of c exposes
\* the king, it is false.
C9_NoSelfCheck ==
  Queried =>
    ((\A m \in ValidMoves(board, call.color) : ~SafeMove(board, call.color, m))
       => ~call.any_legal)

\* Some piece has a valid destination, and each of them exposes the king.
C9_Witness ==
  /\ Queried
  /\ ~call.any_legal
  /\ ValidMoves(board, call.color) /= {}
  /\ \A m \in ValidMoves(board, call.color) : ~SafeMove(board, call.color, m)

\* C10: a side in check that has a valid destination whose trial position
\* leaves its king unattacked is not checkmated: the king steps aside (Black
\* king e8, White queen e6), a piece interposes (White king e1, Black rook e8,
\* White rook b3 or b2), or the checking piece is captured (White king e1,
\* Black queen e2).
C10_EscapeIsNotMate ==
  Queried =>
    /\ (/\ call.in_check
        /\ \E m \in ValidMoves(board, call.color) : SafeMove(board, call.color, m))
         => ~call.checkmate
    /\ (board = EscapeBoard /\ call.color = "Black") => (call.in_check /\ ~call.checkmate)
    /\ (board \in {BlockBoard, BlockBoardB2} /\ call.color = "White")
         => (call.in_check /\ ~call.checkmate)
    /\ (board = CaptureBoard /\ call.color = "White") => (call.in_check /\ ~call.checkmate)

\* The check is met by capturing the checking piece and by nothing else.
C10_Witness ==
  /\ Queried
  /\ call.in_check
  /\ ~call.checkmate
  /\ \A m \in ValidMoves(board, call.color) :
        SafeMove(board, call.color, m) => IsSome(Cell(board, m[2]))

(***************************************************************************)
(* Properties of the interactive session.                                  *)
(***************************************************************************)
Played == call.op = "move" /\ IsSome(call.parsed) /\ ~call.panicked

Refused == call.op = "move" /\ ~IsSome(call.parsed)

Prefix(k) == SubSeq(ScholarsMate, 1, k)

\* C11: from Board::new(), with White and Black alternating, each token of
\* e4 e5 Bc4 Nc6 Qh5 Nf6 Qxf7# typed after the tokens before it is parsed and
\* resolved to a move (never refused), and the board the seventh leaves has
\* Black checkmated.
C11_ScholarsMate ==
  \A k \in DOMAIN ScholarsMate :
    (call.op = "move" /\ call.input = ScholarsMate[k]) =>
      /\ ~(Refused /\ move_history = Prefix(k - 1))
      /\ (Played /\ move_history = ScholarsMate)
           => (call.checkmate /\ is_checkmate(board, "Black"))

\* The seven tokens were played in order and the session waits for a new game.
C11_Witness == move_history = ScholarsMate /\ PostGame /\ move_index = 6

\* C12: on the board holding only the White king g1, White pawns f2, g2, h2
\* and the Black rook a1, White is checkmated: the king is in check along the
\* first rank, its own pawns hold f2, g2, h2, and f1 and h1 stay attacked.
C12_BackRankMate ==
  (Queried /\ board = BackRankBoard /\ call.color = "White") =>
    (call.checkmate /\ call.in_check /\ ~call.any_legal)

C12_Witness ==
  /\ Queried
  /\ call.color = "White"
  /\ call.checkmate
  /\ {s \in Squares : IsSome(Cell(board, s))}
       = {Sq(<<"g", "1">>), Sq(<<"f", "2">>), Sq(<<"g", "2">>), Sq(<<"h", "2">>),
          Sq(<<"a", "1">>)}
  /\ Cell(board, Sq(<<"a", "1">>)) = Some(<<"Rook", "Black">>)
  /\ Cell(board, Sq(<<"g", "1">>)) = Some(<<"King", "White">>)

\* C13: on Board::new() neither side is in check, neither side is
\* checkmated, find_king(White) is e1 = (4, 0) and find_king(Black) is
\* e8 = (4, 7).
C13_InitialPosition ==
  (Queried /\ board = NewBoard) =>
    /\ ~call.in_check
    /\ ~call.checkmate
    /\ call.color = "White" => call.king = Some(Square(4, 0))
    /\ call.color = "Black" => call.king = Some(Square(4, 7))

C13_Witness ==
  /\ Queried
  /\ call.color = "Black"
  /\ move_index = 0
  /\ \A f \in Indices : Cell(board, Square(f, 1)) = Some(<<"Pawn", "White">>)
  /\ Cell(board, Square(4, 7)) = Some(<<"King", "Black">>)
  /\ call.king = Some(Square(4, 7))
  /\ call.any_legal

Occupied(b) == {s \in Squares : IsSome(Cell(b, s))}

\* C14: Board::new() yields exactly the standard 32-piece layout: rank 0
\* holds White R N B Q K B N R on files 0..7, rank 1 eight White pawns, rank 6
\* eight Black pawns, rank 7 Black R N B Q K B N R, ranks 2..5 are empty.
C14_StandardLayout ==
  call.op = "new" =>
    /\ Cardinality(Occupied(board)) = 32
    /\ \A f \in {0, 7} : /\ Cell(board, Square(f, 0)) = Some(<<"Rook", "White">>)
                         /\ Cell(board, Square(f, 7)) = Some(<<"Rook", "Black">>)
    /\ \A f \in {1, 6} : /\ Cell(board, Square(f, 0)) = Some(<<"Knight", "White">>)
                         /\ Cell(board, Square(f, 7)) = Some(<<"Knight", "Black">>)
    /\ \A f \in {2, 5} : /\ Cell(board, Square(f, 0)) = Some(<<"Bishop", "White">>)
                         /\ Cell(board, Square(f, 7)) = Some(<<"Bishop", "Black">>)
    /\ Cell(board, Square(3, 0)) = Some(<<"Queen", "White">>)
    /\ Cell(board, Square(3, 7)) = Some(<<"Queen", "Black">>)
    /\ Cell(board, Square(4, 0)) = Some(<<"King", "White">>)
    /\ Cell(board, Square(4, 7)) = Some(<<"King", "Black">>)
    /\ \A f \in Indices : /\ Cell(board, Square(f, 1)) = Some(<<"Pawn", "White">>)
                          /\ Cell(board, Square(f, 6)) = Some(<<"Pawn", "Black">>)
    /\ \A f \in Indices : \A r \in 2 .. 5 : Cell(board, Square(f, r)) = None

\* A session just started: the board of Board::new() with nothing played.
C14_Witness ==
  /\ call.op = "new"
  /\ move_history = <<>>
  /\ move_index = 0
  /\ Cardinality(Occupied(board)) = 32

(***************************************************************************)
(* Properties of the geometry predicates.                                  *)
(***************************************************************************)
AttackQueried == call.op = "attacked"

Probing == call.op = "probe"

\* The squares holding a piece of the kind and colour.
Standing(b, piece, color) == {s \in Squares : Cell(b, s) = Some(<<piece, color>>)}

\* The squares holding the pieces of the colour.
Army(b, color) == {s \in Occupied(b) : Unwrap(Cell(b, s))[2] = color}

\* Rank offset of a pawn's advance: up the board for White, down for Black.
Ahead(color) == IF color = "White" THEN 1 ELSE -1

\* The squares diagonally ahead of a pawn on s, and the square straight ahead.
DiagonalsAhead(s, color) ==
  {t \in Squares : t.rank = s.rank + Ahead(color) /\ t.file \in {s.file - 1, s.file + 1}}

StraightAhead(s, color) ==
  {t \in Squares : t.rank = s.rank + Ahead(color) /\ t.file = s.file}

\* C15: a White pawn on (f, r) makes is_square_attacked_by true of (f-1, r+1)
\* and (f+1, r+1) whenever they are on the board, whatever stands on them,
\* and does not attack (f, r+1); a Black pawn attacks (f-1, r-1) and
\* (f+1, r-1) and not (f, r-1).
C15_PawnAttacks ==
  /\ AttackQueried =>
       \A s \in Standing(board, "Pawn", call.color) :
         /\ DiagonalsAhead(s, call.color) \subseteq call.targets
         /\ Army(board, call.color) = {s} => call.targets = DiagonalsAhead(s, call.color)
  /\ (Probing /\ call.piece = "Pawn") =>
       /\ call.attacks = DiagonalsAhead(call.origin, call.color)
       /\ StraightAhead(call.origin, call.color) \cap call.attacks = {}

\* A Black pawn with a piece on a square diagonally ahead of it and a free
\* square straight ahead: the first is attacked, the second is not.
C15_Witness ==
  /\ AttackQueried
  /\ call.color = "Black"
  /\ \E s \in Standing(board, "Pawn", "Black") :
       /\ \E t \in DiagonalsAhead(s, "Black") : IsSome(Cell(board, t)) /\ t \in call.targets
       /\ \E t \in StraightAhead(s, "Black") : ~IsSome(Cell(board, t)) /\ t \notin call.targets

\* The squares a2..a7.
FileBelowA8 == {s \in Squares : s.file = 0 /\ s.rank \in 1 .. 6}

\* A rook of the colour stands on a1 and exactly one more piece is on the
\* board, on one of a2..a7.
RookBlockedOnFile(b, color) ==
  /\ Cell(b, Square(0, 0)) = Some(<<"Rook", color>>)
  /\ Cardinality(Occupied(b)) = 2
  /\ Occupied(b) \cap FileBelowA8 /= {}

Blocker(b) == CHOOSE s \in Occupied(b) \cap FileBelowA8 : TRUE

\* The blocker is itself a piece of the colour that attacks a8 along the
\* file or from a7.
BlockerAttacksA8(b, color) ==
  \/ Cell(b, Blocker(b)) \in {Some(<<"Rook", color>>), Some(<<"Queen", color>>)}
  \/ Cell(b, Blocker(b)) = Some(<<"King", color>>) /\ Blocker(b).rank = 6

\* C16 as stated: with a rook on a1 and any one piece of any kind and colour
\* on a2..a7, is_square_attacked_by(a8, the rook's colour) is false.
C16_BlockedRook ==
  (AttackQueried /\ RookBlockedOnFile(board, call.color)) =>
    Square(0, 7) \notin call.targets

\* C16: with a rook on a1 and any one piece of any kind and colour on
\* a2..a7 the rook attacks no square beyond the piece, a8 included, and
\* is_square_attacked_by(a8, the rook's colour) is true exactly when the piece
\* is itself a rook or a queen of the rook's colour, or its king on a7.
C16_BlockedRookItself ==
  /\ (AttackQueried /\ RookBlockedOnFile(board, call.color)) =>
       (Square(0, 7) \in call.targets <=> BlockerAttacksA8(board, call.color))
  /\ (Probing /\ call.origin = Square(0, 0) /\ RookBlockedOnFile(board, call.color)) =>
       \A t \in Squares : (t.file = 0 /\ t.rank > Blocker(board).rank) =>
          (t \notin call.attacks /\ t \notin call.reach)

\* A rook on a1 blocked by an enemy queen: a8 is not attacked.
C16_Witness ==
  /\ AttackQueried
  /\ RookBlockedOnFile(board, call.color)
  /\ Cell(board, Blocker(board)) = Some(<<"Queen", opponent(call.color)>>)
  /\ Square(0, 7) \notin call.targets
  /\ Blocker(board) \in call.targets

\* The disambiguation characters a move text carries: for a piece move, what
\* stands between the piece letter and the destination, capture mark and
\* threat marks left out; for a pawn capture, the file letter before the `x`.
HintChars(notation, piece) ==
  IF piece = "Pawn"
  THEN IF Contains(notation, "x") THEN {notation[1]} ELSE {}
  ELSE LET core == SelectSeq(Tail(notation), LAMBDA c : c \notin {"x", "+", "#"})
       IN {core[i] : i \in 1 .. Len(core) - 2}

\* C17: when the text carries a file letter and/or a rank digit as hint, the
\* origin resolve_move returns lies on that file and/or rank, and a piece of
\* the same kind and colour that also reaches the destination from another
\* file or rank is not returned, even when the scan meets it first: with
\* White rooks on a4 and h4, Rad4 resolves to a4 and Rhd4 to h4.
C17_Disambiguation ==
  (/\ Resolved
   /\ ~is_castling(call.notation)
   /\ call.chess_move \in Parsed(call.notation)
   /\ IsSome(call.result)) =>
    LET origin == Unwrap(call.result).origin
        marks == HintChars(call.notation, call.chess_move.piece)
    IN /\ \A c \in marks : Contains(FileLetters, c) => FileLetters[origin.file + 1] = c
       /\ \A c \in marks : Contains(RankDigits, c) => RankDigits[origin.rank + 1] = c
       /\ (board = RooksBoard /\ call.color = "White") =>
            /\ call.notation = <<"R", "a", "d", "4">> => origin = Sq(<<"a", "4">>)
            /\ call.notation = <<"R", "h", "d", "4">> => origin = Sq(<<"h", "4">>)

\* Rhd4 with rooks on a4 and h4: the rook on a4 reaches d4 too and comes
\* first in the scan, and the rook on h4 is returned.
C17_Witness ==
  /\ Resolved
  /\ call.notation = <<"R", "h", "d", "4">>
  /\ call.chess_move \in Parsed(call.notation)
  /\ IsSome(call.result)
  /\ Unwrap(call.result).origin = Sq(<<"h", "4">>)
  /\ Cell(board, Sq(<<"a", "4">>)) = Some(<<"Rook", call.color>>)
  /\ can_reach(board, "Rook", call.color, 0, 3, Sq(<<"d", "4">>))
  /\ ScanLeq(Sq(<<"a", "4">>), Sq(<<"h", "4">>))

PawnProbed == Probing /\ call.piece = "Pawn"

\* The square holds a piece of the other colour.
HoldsEnemy(b, s, color) == IsSome(Cell(b, s)) /\ Unwrap(Cell(b, s))[2] = opponent(color)

\* C18: for a pawn and a destination one rank ahead and one file sideways,
\* pawn_can_reach (move resolution) is true whatever the destination holds,
\* while pawn_can_move_to (legal-move enumeration) is true only when it holds
\* a piece of the other colour; on the pawn's own file the two agree.
C18_PawnDiagonal ==
  PawnProbed =>
    /\ \A d \in DiagonalsAhead(call.origin, call.color) :
         /\ d \in call.reach
         /\ d \in call.valid <=> HoldsEnemy(board, d, call.color)
    /\ \A d \in Squares : d.file = call.origin.file => (d \in call.reach <=> d \in call.valid)

\* A pawn with a piece of its own colour diagonally ahead: the square is
\* reachable for resolution and no destination for a legal move.
C18_Witness ==
  /\ PawnProbed
  /\ \E d \in DiagonalsAhead(call.origin, call.color) :
       /\ IsSome(Cell(board, d))
       /\ ~HoldsEnemy(board, d, call.color)
       /\ d \in call.reach
       /\ d \notin call.valid
  /\ \E d \in StraightAhead(call.origin, call.color) : d \in call.reach /\ d \in call.valid

\* The rank pawns of the colour start on.
StartRank(color) == IF color = "White" THEN 1 ELSE 6

Free(b, file, rank) == OnBoard(file, rank) /\ ~IsSome(Cell(b, Square(file, rank)))

\* d is one rank ahead of the pawn on s, on its file, and empty.
SinglePush(b, s, color, d) ==
  d.file = s.file /\ d.rank = s.rank + Ahead(color) /\ Free(b, d.file, d.rank)

\* d is two ranks ahead of the pawn on s, on its file, the pawn stands on its
\* start rank, and d and the square passed are empty.
DoublePush(b, s, color, d) ==
  /\ d.file = s.file
  /\ d.rank = s.rank + 2 * Ahead(color)
  /\ s.rank = StartRank(color)
  /\ Free(b, s.file, s.rank + Ahead(color))
  /\ Free(b, d.file, d.rank)

\* C19: a pawn reaches the square one rank ahead on its file only if that
\* square is empty, the square two ranks ahead only from its start rank
\* (rank 1 for White, rank 6 for Black) with the square passed and the
\* destination both empty, and no square backward, on its own rank or more
\* than one file away.
C19_PawnPushes ==
  PawnProbed =>
    /\ \A d \in Squares : d.file = call.origin.file =>
         (d \in call.reach <=> (\/ SinglePush(board, call.origin, call.color, d)
                                \/ DoublePush(board, call.origin, call.color, d)))
    /\ \A d \in call.reach :
         /\ Abs(d.file - call.origin.file) <= 1
         /\ (d.rank - call.origin.rank) * Ahead(call.color) > 0

\* A pawn on its start rank with the square ahead taken: neither push is
\* reachable; the diagonal steps still are.
C19_Witness ==
  /\ PawnProbed
  /\ call.origin.rank = StartRank(call.color)
  /\ ~Free(board, call.origin.file, call.origin.rank + Ahead(call.color))
  /\ Free(board, call.origin.file, call.origin.rank + 2 * Ahead(call.color))
  /\ \A d \in call.reach : d.file /= call.origin.file
  /\ call.reach /= {}

SliderProbed == Probing /\ call.piece \in {"Bishop", "Rook", "Queen"}

\* d lies on a diagonal through s, or on its rank or file, and is not s.
OnDiagonal(s, d) == Abs(d.file - s.file) = Abs(d.rank - s.rank) /\ d /= s

OnLine(s, d) == (d.file = s.file) /= (d.rank = s.rank)

\* The squares strictly between s and d, for d on a line or diagonal through s.
Between(s, d) ==
  {t \in Squares :
     /\ t /= s
     /\ t /= d
     /\ OnDiagonal(s, t) \/ OnLine(s, t)
     /\ Signum(t.file - s.file) = Signum(d.file - s.file)
     /\ Signum(t.rank - s.rank) = Signum(d.rank - s.rank)
     /\ Abs(t.file - s.file) < Abs(d.file - s.file) \/ Abs(t.rank - s.rank) < Abs(d.rank - s.rank)}

Shape(piece, s, d) ==
  CASE piece = "Bishop" -> OnDiagonal(s, d)
    [] piece = "Rook" -> OnLine(s, d)
    [] piece = "Queen" -> OnDiagonal(s, d) \/ OnLine(s, d)

\* C20: a bishop on s reaches d iff |dfile| = |drank| /= 0, a rook iff
\* exactly one of dfile, drank is zero, a queen iff either holds, and every
\* square strictly between s and d is empty; what stands on d itself (nothing,
\* an own piece, an enemy piece) does not enter.
C20_Sliding ==
  SliderProbed =>
    \A d \in Squares :
      d \in call.reach <=>
        /\ Shape(call.piece, call.origin, d)
        /\ \A t \in Between(call.origin, d) : ~IsSome(Cell(board, t))

\* A slider with a piece of its own colour two steps away on its line: it
\* reaches the square before the piece and the piece's square, and nothing
\* beyond it.
C20_Witness ==
  /\ SliderProbed
  /\ \E d \in call.reach :
       /\ Cell(board, d) = Some(<<"Knight", call.color>>)
       /\ Cardinality(Between(call.origin, d)) = 1
       /\ Between(call.origin, d) \subseteq call.reach
       /\ d \notin call.valid
       /\ \E e \in Squares : d \in Between(call.origin, e) /\ e \notin call.reach
                              /\ Shape(call.piece, call.origin, e)

StepProbed == Probing /\ call.piece \in {"Knight", "King"}

Max(a, b) == IF a >= b THEN a ELSE b

\* C21: a knight on s reaches d iff (|dfile|, |drank|) is (2, 1) or (1, 2)
\* and a king iff max(|dfile|, |drank|) = 1, so never its own square and
\* never a square two or more away; pieces standing beside the piece or on
\* the destination change neither result.
C21_StepPieces ==
  StepProbed =>
    \A d \in Squares :
      LET dfile == Abs(d.file - call.origin.file)
          drank == Abs(d.rank - call.origin.rank)
      IN d \in call.reach <=>
           IF call.piece = "Knight"
           THEN <<dfile, drank>> \in {<<2, 1>>, <<1, 2>>}
           ELSE Max(dfile, drank) = 1

\* A knight near the edge of the board with a piece of its own colour on a
\* square it jumps to: the square is reached.
C21_Witness ==
  /\ StepProbed
  /\ call.piece = "Knight"
  /\ \E d \in call.reach : Cell(board, d) = Some(<<"Knight", call.color>>)
  /\ Cardinality(call.reach) < 8

\* The squares a piece on s attacks: a pawn the squares diagonally ahead, a
\* knight its jumps, a king its neighbours, a slider the squares of its
\* shape up to and including the first occupied one.
AttackSet(b, piece, color, s) ==
  CASE piece = "Pawn" -> DiagonalsAhead(s, color)
    [] piece = "Knight" ->
         {t \in Squares : <<Abs(t.file - s.file), Abs(t.rank - s.rank)>>
                            \in {<<2, 1>>, <<1, 2>>}}
    [] piece = "King" ->
         {t \in Squares : Max(Abs(t.file - s.file), Abs(t.rank - s.rank)) = 1}
    [] OTHER ->
         {t \in Squares : /\ Shape(piece, s, t)
                          /\ \A u \in Between(s, t) : ~IsSome(Cell(b, u))}

\* C22: is_square_attacked_by(target, colour) is true iff some square holds
\* a piece of that colour whose attack predicate holds against target; the
\* attack predicate of a pawn is diagonal-forward only, that of every other
\* piece is its movement reachability; pieces of the other colour never make
\* it true and a piece never attacks the square it stands on.
C22_AttackedBy ==
  /\ AttackQueried =>
       call.targets =
         UNION {AttackSet(board, Unwrap(Cell(board, s))[1], call.color, s) :
                  s \in Army(board, call.color)}
  /\ Probing =>
       /\ call.attacks = AttackSet(board, call.piece, call.color, call.origin)
       /\ call.piece /= "Pawn" => call.attacks = call.reach
       /\ call.origin \notin call.attacks

\* Pieces of both colours on the board: a square only the other colour's
\* piece attacks is not among the attacked squares.
C22_Witness ==
  /\ AttackQueried
  /\ call.targets /= {}
  /\ \E s \in Army(board, opponent(call.color)) :
       AttackSet(board, Unwrap(Cell(board, s))[1], opponent(call.color), s)
         \ call.targets /= {}

\* Some piece of the colour attacks the square.
AttackedFrom(b, target, color) ==
  \E s \in Army(b, color) : target \in AttackSet(b, Unwrap(Cell(b, s))[1], color, s)

\* C23: is_in_check(c) is true iff a king of colour c is on the board and
\* the square find_king(c) returns is attacked by the other colour; when no
\* king of colour c is on the board find_king(c) is None and is_in_check(c)
\* and is_checkmate(c) are false.
C23_CheckNeedsKing ==
  Queried =>
    IF Standing(board, "King", call.color) = {}
    THEN call.king = None /\ ~call.in_check /\ ~call.checkmate
    ELSE /\ IsSome(call.king)
         /\ Unwrap(call.king) \in Standing(board, "King", call.color)
         /\ call.in_check <=> AttackedFrom(board, Unwrap(call.king), opponent(call.color))

\* The side asked about has no king while the other side has pieces on the
\* board.
C23_Witness ==
  /\ Queried
  /\ Standing(board, "King", call.color) = {}
  /\ Army(board, opponent(call.color)) /= {}
  /\ Army(board, call.color) /= {}
  /\ call.king = None
  /\ ~call.in_check

(***************************************************************************)
(* Properties of the hint extraction.                                      *)
(***************************************************************************)
Cleaned == call.op \in {"clean", "hints"}

Hinted == call.op = "hints"

\* The token up to its first '=', without the characters + # ! ? x -.
CleanOf(notation) ==
  LET cut == {i \in 1 .. Len(notation) : notation[i] = "="}
      kept == IF cut = {} THEN notation
              ELSE SubSeq(notation, 1, (CHOOSE i \in cut : \A j \in cut : i <= j) - 1)
  IN SelectSeq(kept, LAMBDA c : c \notin {"+", "#", "!", "?", "x", "-"})

IsFileLetter(c) == c \in {"a", "b", "c", "d", "e", "f", "g", "h"}

IsRankDigit(c) == c \in {"1", "2", "3", "4", "5", "6", "7", "8"}

\* The hint a character stands for: the file of a letter, the rank of a digit.
HintOf(c) ==
  IF IsFileLetter(c) THEN Some(Offset(FileLetters, c)) ELSE Some(Offset(RankDigits, c))

\* The last position among the given ones, as a hint; None when there is none.
LastHint(clean, positions) ==
  IF positions = {} THEN None
  ELSE HintOf(clean[CHOOSE i \in positions : \A j \in positions : j <= i])

\* The positions between the leading piece letter and the two characters of
\* the destination.
Middle(clean) == 2 .. Len(clean) - 2

\* What C24 says of every piece but the pawn.
PieceHints ==
  (Hinted /\ call.piece /= "Pawn") =>
    IF Len(call.clean) <= 3
    THEN call.hints = <<None, None>>
    ELSE /\ call.hints[1]
              = LastHint(call.clean, {i \in Middle(call.clean) : IsFileLetter(call.clean[i])})
         /\ call.hints[2]
              = LastHint(call.clean, {i \in Middle(call.clean) : IsRankDigit(call.clean[i])})

\* C24 as stated: the token is cleaned of its promotion suffix and of the
\* characters + # ! ? x -; for a pawn the first character becomes the file
\* hint iff the cleaned token is longer than 2 characters, and there is never
\* a rank hint; for another piece there is no hint up to 3 characters, and
\* beyond that the last file letter and the last rank digit between the piece
\* letter and the destination are the hints.
C24_Hints ==
  /\ Cleaned => call.clean = CleanOf(call.notation)
  /\ (Hinted /\ call.piece = "Pawn") =>
       /\ IsSome(call.hints[1]) <=> Len(call.clean) > 2
       /\ IsSome(call.hints[1]) => call.hints[1] = HintOf(call.clean[1])
       /\ call.hints[2] = None
  /\ PieceHints

\* C24: as above, the pawn's first character becoming the file hint iff the
\* cleaned token is longer than 2 characters and that character is a letter
\* a..h.
C24_HintsOfFileLetter ==
  /\ Cleaned => call.clean = CleanOf(call.notation)
  /\ (Hinted /\ call.piece = "Pawn") =>
       /\ IsSome(call.hints[1]) <=> (Len(call.clean) > 2 /\ IsFileLetter(call.clean[1]))
       /\ IsSome(call.hints[1]) => call.hints[1] = HintOf(call.clean[1])
       /\ call.hints[2] = None
  /\ PieceHints

\* A piece token with two different file letters before the destination:
\* the second is the hint.
C24_Witness ==
  /\ Hinted
  /\ call.piece = "Rook"
  /\ Len(call.clean) = 5
  /\ IsFileLetter(call.clean[2])
  /\ IsFileLetter(call.clean[3])
  /\ call.clean[2] /= call.clean[3]
  /\ call.hints = <<HintOf(call.clean[3]), None>>

\* The threat mark that describes the position a move leaves: # for a
\* checkmate, + for a check that is no checkmate, none otherwise.
ThreatShown(in_check, checkmate) ==
  IF checkmate THEN "Checkmate" ELSE IF in_check THEN "Check" ELSE "None"

\* C25: validate_threat returns a warning on every mismatch between the
\* token's threat mark and the position the move leaves (checkmate marked but
\* no checkmate, check marked but no check, nothing marked on a check or a
\* checkmate, and any other mark that does not describe the position), and
\* returns None when the mark describes the position.
C25_ThreatWarning ==
  Played =>
    (IsSome(call.warning)
       <=> Unwrap(call.chess_move).threat /= ThreatShown(call.in_check, call.checkmate))

\* One step of the session as C26 describes it.
TurnStep ==
  /\ (call'.op = "move" /\ ~IsSome(call'.parsed)) =>
       (board' = board /\ move_index' = move_index /\ move_history' = move_history)
  /\ (call'.op = "move" /\ IsSome(call'.parsed)) =>
       /\ move_index' = IF call'.checkmate THEN move_index ELSE move_index + 1
       /\ move_history' = Append(move_history, call'.input)
  /\ call'.op = "move" =>
       call'.color = (IF Len(move_history) % 2 = 0 THEN "White" ELSE "Black")
  /\ call'.op = "new" => (board' = NewBoard /\ move_index' = 0 /\ move_history' = <<>>)
  /\ (board' /= board \/ move_index' /= move_index) =>
       (call'.op = "new" \/ (call'.op = "move" /\ IsSome(call'.parsed)))

\* C26: in the interactive loop the board and the side to move change only
\* through a parsed, resolved and applied move or through reset or a new
\* game: a token that fails to parse or that resolve_move refuses leaves the
\* board and move_index unchanged, each applied move that is no checkmate
\* advances move_index by one, and the colour passed to resolve_move
\* alternates White, Black, White, ... from White after start, reset or new
\* game.
C26_Turns == [][TurnStep]_vars

\* Black to move after three played tokens, and a token the parser refuses.
C26_Witness ==
  /\ call.op = "move"
  /\ call.chess_move = None
  /\ call.color = "Black"
  /\ move_index = 3
  /\ Len(move_history) = 3

\* The square holds a piece of the colour.
HoldsOwn(b, s, color) == IsSome(Cell(b, s)) /\ Unwrap(Cell(b, s))[2] = color

\* C27: a move resolve_move returns for a text that is not castling never
\* has a destination holding a piece of the mover's own colour, so applying
\* it never removes one of the mover's own pieces.
C27_NoOwnCapture ==
  (Resolved /\ ~is_castling(call.notation) /\ IsSome(call.result)) =>
    ~HoldsOwn(board, Unwrap(call.result).dest, call.color)

\* C28: in every position reached from the starting position by resolving
\* and applying tokens for the side to move, colours alternating from White,
\* each colour has exactly one king on the board, so find_king never returns
\* None.
C28_OneKing ==
  \A color \in {"White", "Black"} :
    /\ Cardinality(Standing(board, "King", color)) = 1
    /\ IsSome(find_king(board, color))

\* Position of a square in the scan of find_origin: ranks upward, files
\* upward within a rank.
ScanIndex(s) == s.rank * 8 + s.file

\* No other piece of the probed kind and colour stands before the probed
\* origin in the scan.
FirstOfKind ==
  \A s \in Standing(board, call.piece, call.color) :
    ScanIndex(call.origin) <= ScanIndex(s)

\* C29: the legal-move predicate strengthens the move-resolution predicate:
\* every destination is_valid_destination accepts for a piece, can_reach
\* accepts too; hence find_origin, asked without hints for that kind of piece
\* and that destination, returns the piece's square when no other piece of
\* the kind and colour precedes it in the scan.
C29_ValidReaches ==
  Probing =>
    /\ call.valid \subseteq call.reach
    /\ FirstOfKind =>
         \A d \in call.valid :
           find_origin(board, call.piece, d, call.color, None, None) = Some(call.origin)

\* A piece with a legal destination and a reachable square that is no legal
\* destination, standing behind no other piece of its kind.
C29_Witness ==
  /\ Probing
  /\ call.valid /= {}
  /\ call.valid /= call.reach
  /\ FirstOfKind
  /\ Cardinality(Standing(board, call.piece, call.color)) = 2

\* The displacement the piece's can_reach accepts before it starts the walk.
Validated(piece, s, d) ==
  CASE piece = "Bishop" -> OnDiagonal(s, d)
    [] piece = "Rook" -> OnLine(s, d)
    [] piece = "Queen" -> OnDiagonal(s, d) \/ OnLine(s, d)
    [] OTHER -> FALSE

\* The squares of a walk, as a set.
ReadSet(reads) == {reads[i] : i \in DOMAIN reads}

\* C30: for every origin and destination on the board the walk that
\* bishop_can_reach or rook_can_reach starts ends after at most 6 steps and
\* reads only squares with file and rank in 0..7, no index out of range and
\* none wrapped around from a negative coordinate, because the walk is
\* entered only for a displacement that is a diagonal or a straight line and
\* not zero: the squares read lie strictly between origin and destination,
\* and the destination is reachable exactly when all of them are empty.
C30_WalkInRange ==
  SliderProbed =>
    \A d \in Squares :
      LET walk == call.walks[d]
      IN /\ walk.entered <=> Validated(call.piece, call.origin, d)
         /\ Len(walk.reads) <= 6
         /\ ReadSet(walk.reads) \subseteq Squares
         /\ ReadSet(walk.reads) \subseteq Between(call.origin, d)
         /\ Cardinality(ReadSet(walk.reads)) = Len(walk.reads)
         /\ d \in call.reach <=> (walk.entered /\ ReadSet(walk.reads) \cap Occupied(board) = {})

\* A slider whose walk to one destination takes six steps over free squares
\* and whose walk to another destination ends on an occupied square.
C30_Witness ==
  /\ SliderProbed
  /\ \E d \in Squares :
       /\ Len(call.walks[d].reads) = 6
       /\ d \in call.reach
  /\ \E d \in Squares :
       /\ call.walks[d].entered
       /\ ReadSet(call.walks[d].reads) \cap Occupied(board) /= {}

====
